---- MODULE Spec2Model ----
(***************************************************************************)
(* Lab Image Batcher (src/app.py): the sizing functions, the sidebar's     *)
(* textual size inputs, the per-file processing loop and the contact-sheet *)
(* layout.  An image is modelled by its pixel size <<w, h>>; pixel content *)
(* is not modelled.                                                        *)
(*                                                                         *)
(* Floating point.  The code computes scale = a / b in IEEE doubles and    *)
(* then int(round(e * scale)).  The model keeps scale as the pair <<a, b>> *)
(* and PyRound reproduces the double computation with integers: when       *)
(* e*a/b is not halfway between two integers the two roundings of the      *)
(* double computation cannot move it across the halfway point, and when it *)
(* is, the sign and size of the error of the rounded quotient a/b decide   *)
(* whether the product lands on, above or below n + 1/2.                   *)
(*                                                                         *)
(* Definitions marked "variant" are deliberately wrong versions of the     *)
(* definition that follows them; a property that depends on the code must  *)
(* fail when the variant is put in its place.                              *)
(***************************************************************************)
EXTENDS Integers, Sequences, FiniteSets

VARIABLES
    pc,             \* position in the script / in the unit under test
    inputs,         \* raw widget values read by the sidebar
    ui,             \* values the sidebar leaves for the processing code
    files,          \* uploaded files, in upload order
    k,              \* number of files the processing loop has consumed
    processed,      \* list of ProcessedImage
    log,            \* messages shown to the user, in order
    imgs_for_grid,  \* image sizes entering the layout
    cell,           \* <<cell_w, cell_h>>
    rows,           \* rows of the layout
    sheet,          \* <<W, H>> of the contact sheet
    placed,         \* pastes done so far: [ox, oy, w, h, x, y]
    call,           \* arguments of the sizing function under test
    ret             \* its result

vars == <<pc, inputs, ui, files, k, processed, log, imgs_for_grid, cell,
          rows, sheet, placed, call, ret>>

\* ------------------------------------------------------------------ bounds

MaxDim == 8          \* image width/height of the sizing functions: 1..MaxDim
MaxTarget == 8       \* target edge / target box side: 1..MaxTarget
MaxFiles == 3        \* uploaded files per run: 0..MaxFiles
MaxCols == 2         \* columns of the contact sheet: 1..MaxCols
MaxText == 4         \* characters typed into a size field: 0..MaxText

\* ------------------------------------------------------------- arithmetic

Max2(a, b) == IF a >= b THEN a ELSE b
Min2(a, b) == IF a <= b THEN a ELSE b

\* floor(log2(num/den)) for num, den > 0
RECURSIVE Log2Up(_, _, _)
Log2Up(num, den, n) == IF 2 * den <= num THEN Log2Up(num, 2 * den, n + 1) ELSE n
RECURSIVE Log2Down(_, _, _)
Log2Down(num, den, n) == IF num < den THEN Log2Down(2 * num, den, n + 1) ELSE 0 - n
Log2Floor(num, den) ==
    IF num >= den THEN Log2Up(num, den, 0) ELSE Log2Down(num, den, 0)

\* (r * 2^s) mod b
RECURSIVE ShiftMod(_, _, _)
ShiftMod(r, b, s) == IF s = 0 THEN r ELSE ShiftMod((2 * r) % b, b, s - 1)

\* The double a / b: the quotient is rounded to 53 significant bits, that is
\* to a multiple of 2^-s with s = 52 - floor(log2(a/b)).  QuotientError is d
\* in  double(a/b) = a/b + d / (b * 2^s),  -b/2 < d <= b/2.  (A quotient
\* exactly halfway between two doubles needs a 54-bit numerator and does not
\* occur for operands of this size.)
QuotientError(a, b) ==
    LET s == 52 - Log2Floor(a, b)
        r == ShiftMod(a % b, b, s)
    IN  IF 2 * r > b THEN b - r ELSE 0 - r

HalfEven(n) == IF n % 2 = 0 THEN n ELSE n + 1

\* int(round(e * scale)) for scale the double a / b, with e, a, b >= 1.
\* Off the halfway point the result is the nearest integer to e*a/b.  At
\* e*a/b = n + 1/2 the product e * double(a/b) is n + 1/2 + e*d/(b*2^s); it is
\* rounded to a double, which is n + 1/2 itself unless the excess is more than
\* half the spacing of the doubles there (2^(t-1) / 2^s with t =
\* floor(log2(n + 1/2)) - floor(log2(a/b)); half of that below 1/2, a power of
\* two); round() then sends n + 1/2 to the even neighbour and anything else to
\* the nearer one.
\* variant: int() without round()
PyRoundFloor(e, a, b) == (e * a) \div b
PyRound(e, a, b) ==
    LET n == (e * a) \div b
        r == (e * a) % b
        d == QuotientError(a, b)
        t == Log2Floor(2 * n + 1, 2) - Log2Floor(a, b)
    IN  IF 2 * r < b THEN n
        ELSE IF 2 * r > b THEN n + 1
        ELSE IF d > 0 /\ 2 * e * d > b * 2 ^ t THEN n + 1
        ELSE IF d < 0 /\ (IF n = 0 THEN 4 ELSE 2) * e * (0 - d) > b * 2 ^ t THEN n
        ELSE HalfEven(n)

\* max(1, int(round(e * scale))) for scale = <<a, b>>
ScaledEdge(e, scale) == Max2(1, PyRound(e, scale[1], scale[2]))

\* scale > 1.0
GreaterThanOne(scale) == scale[1] > scale[2]

\* min(a, b) and max(a, b) of two fractions with positive denominators
FracMin(a, b) == IF a[1] * b[2] <= b[1] * a[2] THEN a ELSE b
FracMax(a, b) == IF a[1] * b[2] >= b[1] * a[2] THEN a ELSE b

\* min(1.0, scale)
ClampToOne(scale) == IF GreaterThanOne(scale) THEN <<1, 1>> ELSE scale

\* ------------------------------------------------------ sizing functions

LongestEdge == "longest"             \* "最长边"
ShortestEdge == "shortest"           \* "短边"
PadToFit == "pad"                    \* "等比缩放，补边"
CropToFill == "crop"                 \* "等比填满，居中裁剪"
Stretch == "stretch"                 \* "不保持比例，直接拉伸"

\* Pillow: Image.resize(size) has that size; Image.new(mode, size) has that
\* size and paste() keeps it; crop((l, t, r, b)) has size (r-l, b-t), whether
\* or not the window lies inside the image.
ImgResize(size) == size
ImgNew(size) == size
ImgCrop(l, t, r, b) == <<r - l, b - t>>

\* scale of resize_by_long_or_short, keep_ratio branch
EdgeScale(w, h, target, mode) ==
    IF mode = LongestEdge THEN <<target, Max2(w, h)>>
    ELSE <<target, Min2(w, h)>>

\* variant: the comparison turned around
ReturnsInputInverted(no_upscale, scale) == no_upscale /\ scale[1] < scale[2]
\* "if no_upscale and scale > 1.0: return img"
ReturnsInput(no_upscale, scale) == no_upscale /\ GreaterThanOne(scale)

\* resize_by_long_or_short: the result's size; same = the input object itself
\* is returned; resized = <<nw, nh>> handed to img.resize.
resize_by_long_or_short(img, target, mode, keep_ratio, no_upscale) ==
    LET w == img[1]
        h == img[2]
    IN  IF keep_ratio
        THEN LET scale == EdgeScale(w, h, target, mode)
                 nw == ScaledEdge(w, scale)
                 nh == ScaledEdge(h, scale)
             IN  IF ReturnsInput(no_upscale, scale)
                 THEN [size |-> img, same |-> TRUE, resized |-> img]
                 ELSE [size |-> ImgResize(<<nw, nh>>), same |-> FALSE,
                       resized |-> <<nw, nh>>]
        ELSE LET forced ==
                     IF mode = LongestEdge
                     THEN IF w >= h THEN <<target, h>> ELSE <<w, target>>
                     ELSE IF w <= h THEN <<target, h>> ELSE <<w, target>>
                 nw == IF no_upscale THEN Min2(forced[1], w) ELSE forced[1]
                 nh == IF no_upscale THEN Min2(forced[2], h) ELSE forced[2]
             IN  [size |-> ImgResize(<<nw, nh>>), same |-> FALSE,
                  resized |-> <<nw, nh>>]

\* variant: max for min
PadScaleMax(w, h, tw, th, no_upscale) ==
    LET scale == FracMax(<<tw, w>>, <<th, h>>)
    IN  IF no_upscale THEN ClampToOne(scale) ELSE scale
\* scale of the pad-to-fit branch
PadScale(w, h, tw, th, no_upscale) ==
    LET scale == FracMin(<<tw, w>>, <<th, h>>)
    IN  IF no_upscale THEN ClampToOne(scale) ELSE scale

\* scale of the crop-to-fill branch
CropScale(w, h, tw, th, no_upscale) ==
    LET scale == FracMax(<<tw, w>>, <<th, h>>)
    IN  IF no_upscale THEN ClampToOne(scale) ELSE scale

\* resize_to_box: the result's size; resized = <<nw, nh>> of img2; at = the
\* paste offset on the canvas (pad) or the crop origin <<left, top>> (crop).
resize_to_box(img, tw, th, fit_mode, no_upscale) ==
    LET w == img[1]
        h == img[2]
    IN  IF fit_mode = PadToFit
        THEN LET scale == PadScale(w, h, tw, th, no_upscale)
                 nw == ScaledEdge(w, scale)
                 nh == ScaledEdge(h, scale)
             IN  [size |-> ImgNew(<<tw, th>>), resized |-> ImgResize(<<nw, nh>>),
                  at |-> <<(tw - nw) \div 2, (th - nh) \div 2>>]
        ELSE IF fit_mode = CropToFill
        THEN LET scale == CropScale(w, h, tw, th, no_upscale)
                 nw == ScaledEdge(w, scale)
                 nh == ScaledEdge(h, scale)
                 left == Max2(0, (nw - tw) \div 2)
                 top == Max2(0, (nh - th) \div 2)
             IN  [size |-> ImgCrop(left, top, left + tw, top + th),
                  resized |-> ImgResize(<<nw, nh>>), at |-> <<left, top>>]
        ELSE LET bw == IF no_upscale THEN Min2(tw, w) ELSE tw
                 bh == IF no_upscale THEN Min2(th, h) ELSE th
             IN  [size |-> ImgResize(<<bw, bh>>), resized |-> <<bw, bh>>,
                  at |-> <<0, 0>>]

\* ------------------------------------------- the sizing functions on their own

NoCall == [fn |-> "none"]
NoRet == [size |-> <<>>]

Idle ==
    /\ inputs = [mode |-> "none"]
    /\ ui = [mode |-> "none"]
    /\ files = <<>>
    /\ k = 0
    /\ processed = <<>>
    /\ log = <<>>
    /\ imgs_for_grid = <<>>
    /\ cell = <<>>
    /\ rows = 0
    /\ sheet = <<>>
    /\ placed = <<>>

\* Sizes and targets beyond the bounds at which e*a/b is halfway between two
\* integers and the double product is not.
HalfwayEdgeCalls ==
    {<<<<21, 14>>, 17>>, <<<<14, 21>>, 17>>, <<<<11, 22>>, 15>>, <<<<22, 11>>, 15>>,
     <<<<7, 14>>, 29>>, <<<<15, 6>>, 25>>, <<<<6, 15>>, 25>>, <<<<13, 26>>, 15>>}
HalfwayBoxCalls ==
    {<<<<11, 22>>, 9, 15>>, <<<<21, 14>>, 400, 17>>, <<<<14, 21>>, 17, 1>>,
     <<<<14, 7>>, 29, 29>>, <<<<22, 11>>, 15, 15>>, <<<<6, 15>>, 25, 70>>}

InitResize ==
    /\ pc = "call"
    /\ Idle
    /\ ret = NoRet
    /\ \/ \E c \in HalfwayEdgeCalls, mode \in {LongestEdge, ShortestEdge},
             keep_ratio, no_upscale \in BOOLEAN :
             call = [fn |-> "resize_by_long_or_short", img |-> c[1],
                     target |-> c[2], mode |-> mode, keep_ratio |-> keep_ratio,
                     no_upscale |-> no_upscale]
       \/ \E c \in HalfwayBoxCalls,
             fit_mode \in {PadToFit, CropToFill, Stretch}, no_upscale \in BOOLEAN :
             call = [fn |-> "resize_to_box", img |-> c[1], tw |-> c[2], th |-> c[3],
                     fit_mode |-> fit_mode, no_upscale |-> no_upscale]
       \/ \E w, h \in 1..MaxDim, target \in 1..MaxTarget,
             mode \in {LongestEdge, ShortestEdge}, keep_ratio, no_upscale \in BOOLEAN :
             call = [fn |-> "resize_by_long_or_short", img |-> <<w, h>>,
                     target |-> target, mode |-> mode, keep_ratio |-> keep_ratio,
                     no_upscale |-> no_upscale]
       \/ \E w, h \in 1..MaxDim, tw, th \in 1..MaxTarget,
             fit_mode \in {PadToFit, CropToFill, Stretch}, no_upscale \in BOOLEAN :
             call = [fn |-> "resize_to_box", img |-> <<w, h>>, tw |-> tw, th |-> th,
                     fit_mode |-> fit_mode, no_upscale |-> no_upscale]

CallResizeByLongOrShort ==
    /\ pc = "call"
    /\ call.fn = "resize_by_long_or_short"
    /\ ret' = resize_by_long_or_short(call.img, call.target, call.mode,
                                      call.keep_ratio, call.no_upscale)
    /\ pc' = "returned"
    /\ UNCHANGED <<inputs, ui, files, k, processed, log, imgs_for_grid, cell,
                   rows, sheet, placed, call>>

CallResizeToBox ==
    /\ pc = "call"
    /\ call.fn = "resize_to_box"
    /\ ret' = resize_to_box(call.img, call.tw, call.th, call.fit_mode, call.no_upscale)
    /\ pc' = "returned"
    /\ UNCHANGED <<inputs, ui, files, k, processed, log, imgs_for_grid, cell,
                   rows, sheet, placed, call>>

NextResize == CallResizeByLongOrShort \/ CallResizeToBox

SpecResize == InitResize /\ [][NextResize]_vars

\* ------------------------------------------------ the sidebar's size inputs

\* A text is a sequence of characters; a character is its Unicode code point
\* ("x" is 120, "X" is 88, the multiplication sign U+00D7 is 215).  The
\* character tables below are those of the Unicode database the interpreter
\* is built with (14.0.0), written as runs of code points.
SmallX == 120
MulSign == 215
PlusSign == 43
MinusSign == 45
Underscore == 95
CapitalSigma == 931
SmallSigma == 963
SmallFinalSigma == 962
CapitalIWithDot == 304
Alphabet == {48, 49, 50, 120, 88, 215, 32, 45, 97}

\* The simple lower-case mappings beyond Latin-1: <<first, last, step, delta>>
\* stands for every code point c = first, first + step, ..., last, mapped to
\* c + delta.
LowerRuns ==
    { <<256, 302, 2, 1>>, <<306, 310, 2, 1>>, <<313, 327, 2, 1>>,
      <<330, 374, 2, 1>>, <<376, 376, 1, -121>>, <<377, 381, 2, 1>>,
      <<385, 385, 1, 210>>, <<386, 388, 2, 1>>, <<390, 390, 1, 206>>,
      <<391, 391, 1, 1>>, <<393, 394, 1, 205>>, <<395, 395, 1, 1>>,
      <<398, 398, 1, 79>>, <<399, 399, 1, 202>>, <<400, 400, 1, 203>>,
      <<401, 401, 1, 1>>, <<403, 403, 1, 205>>, <<404, 404, 1, 207>>,
      <<406, 406, 1, 211>>, <<407, 407, 1, 209>>, <<408, 408, 1, 1>>,
      <<412, 412, 1, 211>>, <<413, 413, 1, 213>>, <<415, 415, 1, 214>>,
      <<416, 420, 2, 1>>, <<422, 422, 1, 218>>, <<423, 423, 1, 1>>,
      <<425, 425, 1, 218>>, <<428, 428, 1, 1>>, <<430, 430, 1, 218>>,
      <<431, 431, 1, 1>>, <<433, 434, 1, 217>>, <<435, 437, 2, 1>>,
      <<439, 439, 1, 219>>, <<440, 440, 1, 1>>, <<444, 444, 1, 1>>,
      <<452, 452, 1, 2>>, <<453, 453, 1, 1>>, <<455, 455, 1, 2>>,
      <<456, 456, 1, 1>>, <<458, 458, 1, 2>>, <<459, 475, 2, 1>>,
      <<478, 494, 2, 1>>, <<497, 497, 1, 2>>, <<498, 500, 2, 1>>,
      <<502, 502, 1, -97>>, <<503, 503, 1, -56>>, <<504, 542, 2, 1>>,
      <<544, 544, 1, -130>>, <<546, 562, 2, 1>>, <<570, 570, 1, 10795>>,
      <<571, 571, 1, 1>>, <<573, 573, 1, -163>>, <<574, 574, 1, 10792>>,
      <<577, 577, 1, 1>>, <<579, 579, 1, -195>>, <<580, 580, 1, 69>>,
      <<581, 581, 1, 71>>, <<582, 590, 2, 1>>, <<880, 882, 2, 1>>,
      <<886, 886, 1, 1>>, <<895, 895, 1, 116>>, <<902, 902, 1, 38>>,
      <<904, 906, 1, 37>>, <<908, 908, 1, 64>>, <<910, 911, 1, 63>>,
      <<913, 929, 1, 32>>, <<931, 939, 1, 32>>, <<975, 975, 1, 8>>,
      <<984, 1006, 2, 1>>, <<1012, 1012, 1, -60>>, <<1015, 1015, 1, 1>>,
      <<1017, 1017, 1, -7>>, <<1018, 1018, 1, 1>>, <<1021, 1023, 1, -130>>,
      <<1024, 1039, 1, 80>>, <<1040, 1071, 1, 32>>, <<1120, 1152, 2, 1>>,
      <<1162, 1214, 2, 1>>, <<1216, 1216, 1, 15>>, <<1217, 1229, 2, 1>>,
      <<1232, 1326, 2, 1>>, <<1329, 1366, 1, 48>>, <<4256, 4293, 1, 7264>>,
      <<4295, 4295, 1, 7264>>, <<4301, 4301, 1, 7264>>, <<5024, 5103, 1, 38864>>,
      <<5104, 5109, 1, 8>>, <<7312, 7354, 1, -3008>>, <<7357, 7359, 1, -3008>>,
      <<7680, 7828, 2, 1>>, <<7838, 7838, 1, -7615>>, <<7840, 7934, 2, 1>>,
      <<7944, 7951, 1, -8>>, <<7960, 7965, 1, -8>>, <<7976, 7983, 1, -8>>,
      <<7992, 7999, 1, -8>>, <<8008, 8013, 1, -8>>, <<8025, 8031, 2, -8>>,
      <<8040, 8047, 1, -8>>, <<8072, 8079, 1, -8>>, <<8088, 8095, 1, -8>>,
      <<8104, 8111, 1, -8>>, <<8120, 8121, 1, -8>>, <<8122, 8123, 1, -74>>,
      <<8124, 8124, 1, -9>>, <<8136, 8139, 1, -86>>, <<8140, 8140, 1, -9>>,
      <<8152, 8153, 1, -8>>, <<8154, 8155, 1, -100>>, <<8168, 8169, 1, -8>>,
      <<8170, 8171, 1, -112>>, <<8172, 8172, 1, -7>>, <<8184, 8185, 1, -128>>,
      <<8186, 8187, 1, -126>>, <<8188, 8188, 1, -9>>, <<8486, 8486, 1, -7517>>,
      <<8490, 8490, 1, -8383>>, <<8491, 8491, 1, -8262>>, <<8498, 8498, 1, 28>>,
      <<8544, 8559, 1, 16>>, <<8579, 8579, 1, 1>>, <<9398, 9423, 1, 26>>,
      <<11264, 11311, 1, 48>>, <<11360, 11360, 1, 1>>, <<11362, 11362, 1, -10743>>,
      <<11363, 11363, 1, -3814>>, <<11364, 11364, 1, -10727>>, <<11367, 11371, 2, 1>>,
      <<11373, 11373, 1, -10780>>, <<11374, 11374, 1, -10749>>, <<11375, 11375, 1, -10783>>,
      <<11376, 11376, 1, -10782>>, <<11378, 11378, 1, 1>>, <<11381, 11381, 1, 1>>,
      <<11390, 11391, 1, -10815>>, <<11392, 11490, 2, 1>>, <<11499, 11501, 2, 1>>,
      <<11506, 11506, 1, 1>>, <<42560, 42604, 2, 1>>, <<42624, 42650, 2, 1>>,
      <<42786, 42798, 2, 1>>, <<42802, 42862, 2, 1>>, <<42873, 42875, 2, 1>>,
      <<42877, 42877, 1, -35332>>, <<42878, 42886, 2, 1>>, <<42891, 42891, 1, 1>>,
      <<42893, 42893, 1, -42280>>, <<42896, 42898, 2, 1>>, <<42902, 42920, 2, 1>>,
      <<42922, 42922, 1, -42308>>, <<42923, 42923, 1, -42319>>, <<42924, 42924, 1, -42315>>,
      <<42925, 42925, 1, -42305>>, <<42926, 42926, 1, -42308>>, <<42928, 42928, 1, -42258>>,
      <<42929, 42929, 1, -42282>>, <<42930, 42930, 1, -42261>>, <<42931, 42931, 1, 928>>,
      <<42932, 42946, 2, 1>>, <<42948, 42948, 1, -48>>, <<42949, 42949, 1, -42307>>,
      <<42950, 42950, 1, -35384>>, <<42951, 42953, 2, 1>>, <<42960, 42960, 1, 1>>,
      <<42966, 42968, 2, 1>>, <<42997, 42997, 1, 1>>, <<65313, 65338, 1, 32>>,
      <<66560, 66599, 1, 40>>, <<66736, 66771, 1, 40>>, <<66928, 66938, 1, 39>>,
      <<66940, 66954, 1, 39>>, <<66956, 66962, 1, 39>>, <<66964, 66965, 1, 39>>,
      <<68736, 68786, 1, 64>>, <<71840, 71871, 1, 32>>, <<93760, 93791, 1, 32>>,
      <<125184, 125217, 1, 34>> }

\* The code points of the digit zero of every decimal-digit script; the nine
\* code points after each are its digits one to nine.
DigitZeros ==
    { 48, 1632, 1776, 1984, 2406, 2534, 2662, 2790, 2918, 3046,
      3174, 3302, 3430, 3558, 3664, 3792, 3872, 4160, 4240, 6112,
      6160, 6470, 6608, 6784, 6800, 6992, 7088, 7232, 7248, 42528,
      43216, 43264, 43472, 43504, 43600, 44016, 65296, 66720, 68912, 69734,
      69872, 69942, 70096, 70384, 70736, 70864, 71248, 71360, 71472, 71904,
      72016, 72784, 73040, 73120, 92768, 92864, 93008, 120782, 120792, 120802,
      120812, 120822, 123200, 123632, 125264, 130032 }

\* str.isspace()
Whitespace ==
    { 9, 10, 11, 12, 13, 28, 29, 30, 31, 32, 133, 160,
      5760, 8192, 8193, 8194, 8195, 8196, 8197, 8198, 8199, 8200, 8201, 8202,
      8232, 8233, 8239, 8287, 12288 }

\* Case-ignorable characters, as runs <<first, last>>.
CaseIgnorableRuns ==
    { <<39, 39>>, <<46, 46>>, <<58, 58>>, <<94, 94>>, <<96, 96>>,
      <<168, 168>>, <<173, 173>>, <<175, 175>>, <<180, 180>>, <<183, 184>>,
      <<688, 879>>, <<884, 885>>, <<890, 890>>, <<900, 901>>, <<903, 903>>,
      <<1155, 1161>>, <<1369, 1369>>, <<1375, 1375>>, <<1425, 1469>>, <<1471, 1471>>,
      <<1473, 1474>>, <<1476, 1477>>, <<1479, 1479>>, <<1524, 1524>>, <<1536, 1541>>,
      <<1552, 1562>>, <<1564, 1564>>, <<1600, 1600>>, <<1611, 1631>>, <<1648, 1648>>,
      <<1750, 1757>>, <<1759, 1768>>, <<1770, 1773>>, <<1807, 1807>>, <<1809, 1809>>,
      <<1840, 1866>>, <<1958, 1968>>, <<2027, 2037>>, <<2042, 2042>>, <<2045, 2045>>,
      <<2070, 2093>>, <<2137, 2139>>, <<2184, 2184>>, <<2192, 2193>>, <<2200, 2207>>,
      <<2249, 2306>>, <<2362, 2362>>, <<2364, 2364>>, <<2369, 2376>>, <<2381, 2381>>,
      <<2385, 2391>>, <<2402, 2403>>, <<2417, 2417>>, <<2433, 2433>>, <<2492, 2492>>,
      <<2497, 2500>>, <<2509, 2509>>, <<2530, 2531>>, <<2558, 2558>>, <<2561, 2562>>,
      <<2620, 2620>>, <<2625, 2626>>, <<2631, 2632>>, <<2635, 2637>>, <<2641, 2641>>,
      <<2672, 2673>>, <<2677, 2677>>, <<2689, 2690>>, <<2748, 2748>>, <<2753, 2757>>,
      <<2759, 2760>>, <<2765, 2765>>, <<2786, 2787>>, <<2810, 2815>>, <<2817, 2817>>,
      <<2876, 2876>>, <<2879, 2879>>, <<2881, 2884>>, <<2893, 2893>>, <<2901, 2902>>,
      <<2914, 2915>>, <<2946, 2946>>, <<3008, 3008>>, <<3021, 3021>>, <<3072, 3072>>,
      <<3076, 3076>>, <<3132, 3132>>, <<3134, 3136>>, <<3142, 3144>>, <<3146, 3149>>,
      <<3157, 3158>>, <<3170, 3171>>, <<3201, 3201>>, <<3260, 3260>>, <<3263, 3263>>,
      <<3270, 3270>>, <<3276, 3277>>, <<3298, 3299>>, <<3328, 3329>>, <<3387, 3388>>,
      <<3393, 3396>>, <<3405, 3405>>, <<3426, 3427>>, <<3457, 3457>>, <<3530, 3530>>,
      <<3538, 3540>>, <<3542, 3542>>, <<3633, 3633>>, <<3636, 3642>>, <<3654, 3662>>,
      <<3761, 3761>>, <<3764, 3772>>, <<3782, 3782>>, <<3784, 3789>>, <<3864, 3865>>,
      <<3893, 3893>>, <<3895, 3895>>, <<3897, 3897>>, <<3953, 3966>>, <<3968, 3972>>,
      <<3974, 3975>>, <<3981, 3991>>, <<3993, 4028>>, <<4038, 4038>>, <<4141, 4144>>,
      <<4146, 4151>>, <<4153, 4154>>, <<4157, 4158>>, <<4184, 4185>>, <<4190, 4192>>,
      <<4209, 4212>>, <<4226, 4226>>, <<4229, 4230>>, <<4237, 4237>>, <<4253, 4253>>,
      <<4348, 4348>>, <<4957, 4959>>, <<5906, 5908>>, <<5938, 5939>>, <<5970, 5971>>,
      <<6002, 6003>>, <<6068, 6069>>, <<6071, 6077>>, <<6086, 6086>>, <<6089, 6099>>,
      <<6103, 6103>>, <<6109, 6109>>, <<6155, 6159>>, <<6211, 6211>>, <<6277, 6278>>,
      <<6313, 6313>>, <<6432, 6434>>, <<6439, 6440>>, <<6450, 6450>>, <<6457, 6459>>,
      <<6679, 6680>>, <<6683, 6683>>, <<6742, 6742>>, <<6744, 6750>>, <<6752, 6752>>,
      <<6754, 6754>>, <<6757, 6764>>, <<6771, 6780>>, <<6783, 6783>>, <<6823, 6823>>,
      <<6832, 6862>>, <<6912, 6915>>, <<6964, 6964>>, <<6966, 6970>>, <<6972, 6972>>,
      <<6978, 6978>>, <<7019, 7027>>, <<7040, 7041>>, <<7074, 7077>>, <<7080, 7081>>,
      <<7083, 7085>>, <<7142, 7142>>, <<7144, 7145>>, <<7149, 7149>>, <<7151, 7153>>,
      <<7212, 7219>>, <<7222, 7223>>, <<7288, 7293>>, <<7376, 7378>>, <<7380, 7392>>,
      <<7394, 7400>>, <<7405, 7405>>, <<7412, 7412>>, <<7416, 7417>>, <<7468, 7530>>,
      <<7544, 7544>>, <<7579, 7679>>, <<8125, 8125>>, <<8127, 8129>>, <<8141, 8143>>,
      <<8157, 8159>>, <<8173, 8175>>, <<8189, 8190>>, <<8203, 8207>>, <<8216, 8217>>,
      <<8228, 8228>>, <<8231, 8231>>, <<8234, 8238>>, <<8288, 8292>>, <<8294, 8303>>,
      <<8305, 8305>>, <<8319, 8319>>, <<8336, 8348>>, <<8400, 8432>>, <<11388, 11389>>,
      <<11503, 11505>>, <<11631, 11631>>, <<11647, 11647>>, <<11744, 11775>>, <<11823, 11823>>,
      <<12293, 12293>>, <<12330, 12333>>, <<12337, 12341>>, <<12347, 12347>>, <<12441, 12446>>,
      <<12540, 12542>>, <<40981, 40981>>, <<42232, 42237>>, <<42508, 42508>>, <<42607, 42610>>,
      <<42612, 42621>>, <<42623, 42623>>, <<42652, 42655>>, <<42736, 42737>>, <<42752, 42785>>,
      <<42864, 42864>>, <<42888, 42890>>, <<42994, 42996>>, <<43000, 43001>>, <<43010, 43010>>,
      <<43014, 43014>>, <<43019, 43019>>, <<43045, 43046>>, <<43052, 43052>>, <<43204, 43205>>,
      <<43232, 43249>>, <<43263, 43263>>, <<43302, 43309>>, <<43335, 43345>>, <<43392, 43394>>,
      <<43443, 43443>>, <<43446, 43449>>, <<43452, 43453>>, <<43471, 43471>>, <<43493, 43494>>,
      <<43561, 43566>>, <<43569, 43570>>, <<43573, 43574>>, <<43587, 43587>>, <<43596, 43596>>,
      <<43632, 43632>>, <<43644, 43644>>, <<43696, 43696>>, <<43698, 43700>>, <<43703, 43704>>,
      <<43710, 43711>>, <<43713, 43713>>, <<43741, 43741>>, <<43756, 43757>>, <<43763, 43764>>,
      <<43766, 43766>>, <<43867, 43871>>, <<43881, 43883>>, <<44005, 44005>>, <<44008, 44008>>,
      <<44013, 44013>>, <<64286, 64286>>, <<64434, 64450>>, <<65024, 65039>>, <<65043, 65043>>,
      <<65056, 65071>>, <<65106, 65106>>, <<65109, 65109>>, <<65279, 65279>>, <<65287, 65287>>,
      <<65294, 65294>>, <<65306, 65306>>, <<65342, 65342>>, <<65344, 65344>>, <<65392, 65392>>,
      <<65438, 65439>>, <<65507, 65507>>, <<65529, 65531>>, <<66045, 66045>>, <<66272, 66272>>,
      <<66422, 66426>>, <<67456, 67461>>, <<67463, 67504>>, <<67506, 67514>>, <<68097, 68099>>,
      <<68101, 68102>>, <<68108, 68111>>, <<68152, 68154>>, <<68159, 68159>>, <<68325, 68326>>,
      <<68900, 68903>>, <<69291, 69292>>, <<69446, 69456>>, <<69506, 69509>>, <<69633, 69633>>,
      <<69688, 69702>>, <<69744, 69744>>, <<69747, 69748>>, <<69759, 69761>>, <<69811, 69814>>,
      <<69817, 69818>>, <<69821, 69821>>, <<69826, 69826>>, <<69837, 69837>>, <<69888, 69890>>,
      <<69927, 69931>>, <<69933, 69940>>, <<70003, 70003>>, <<70016, 70017>>, <<70070, 70078>>,
      <<70089, 70092>>, <<70095, 70095>>, <<70191, 70193>>, <<70196, 70196>>, <<70198, 70199>>,
      <<70206, 70206>>, <<70367, 70367>>, <<70371, 70378>>, <<70400, 70401>>, <<70459, 70460>>,
      <<70464, 70464>>, <<70502, 70508>>, <<70512, 70516>>, <<70712, 70719>>, <<70722, 70724>>,
      <<70726, 70726>>, <<70750, 70750>>, <<70835, 70840>>, <<70842, 70842>>, <<70847, 70848>>,
      <<70850, 70851>>, <<71090, 71093>>, <<71100, 71101>>, <<71103, 71104>>, <<71132, 71133>>,
      <<71219, 71226>>, <<71229, 71229>>, <<71231, 71232>>, <<71339, 71339>>, <<71341, 71341>>,
      <<71344, 71349>>, <<71351, 71351>>, <<71453, 71455>>, <<71458, 71461>>, <<71463, 71467>>,
      <<71727, 71735>>, <<71737, 71738>>, <<71995, 71996>>, <<71998, 71998>>, <<72003, 72003>>,
      <<72148, 72151>>, <<72154, 72155>>, <<72160, 72160>>, <<72193, 72202>>, <<72243, 72248>>,
      <<72251, 72254>>, <<72263, 72263>>, <<72273, 72278>>, <<72281, 72283>>, <<72330, 72342>>,
      <<72344, 72345>>, <<72752, 72758>>, <<72760, 72765>>, <<72767, 72767>>, <<72850, 72871>>,
      <<72874, 72880>>, <<72882, 72883>>, <<72885, 72886>>, <<73009, 73014>>, <<73018, 73018>>,
      <<73020, 73021>>, <<73023, 73029>>, <<73031, 73031>>, <<73104, 73105>>, <<73109, 73109>>,
      <<73111, 73111>>, <<73459, 73460>>, <<78896, 78904>>, <<92912, 92916>>, <<92976, 92982>>,
      <<92992, 92995>>, <<94031, 94031>>, <<94095, 94111>>, <<94176, 94177>>, <<94179, 94180>>,
      <<110576, 110579>>, <<110581, 110587>>, <<110589, 110590>>, <<113821, 113822>>, <<113824, 113827>>,
      <<118528, 118573>>, <<118576, 118598>>, <<119143, 119145>>, <<119155, 119170>>, <<119173, 119179>>,
      <<119210, 119213>>, <<119362, 119364>>, <<121344, 121398>>, <<121403, 121452>>, <<121461, 121461>>,
      <<121476, 121476>>, <<121499, 121503>>, <<121505, 121519>>, <<122880, 122886>>, <<122888, 122904>>,
      <<122907, 122913>>, <<122915, 122916>>, <<122918, 122922>>, <<123184, 123197>>, <<123566, 123566>>,
      <<123628, 123631>>, <<125136, 125142>>, <<125252, 125259>>, <<127995, 127999>>, <<917505, 917505>>,
      <<917536, 917631>>, <<917760, 917999>> }

\* Cased characters that are not case-ignorable, as runs <<first, last>>.
CasedRuns ==
    { <<65, 90>>, <<97, 122>>, <<170, 170>>, <<181, 181>>, <<186, 186>>,
      <<192, 214>>, <<216, 246>>, <<248, 442>>, <<444, 447>>, <<452, 659>>,
      <<661, 687>>, <<880, 883>>, <<886, 887>>, <<891, 893>>, <<895, 895>>,
      <<902, 902>>, <<904, 906>>, <<908, 908>>, <<910, 929>>, <<931, 1013>>,
      <<1015, 1153>>, <<1162, 1327>>, <<1329, 1366>>, <<1376, 1416>>, <<4256, 4293>>,
      <<4295, 4295>>, <<4301, 4301>>, <<4304, 4346>>, <<4349, 4351>>, <<5024, 5109>>,
      <<5112, 5117>>, <<7296, 7304>>, <<7312, 7354>>, <<7357, 7359>>, <<7424, 7467>>,
      <<7531, 7543>>, <<7545, 7578>>, <<7680, 7957>>, <<7960, 7965>>, <<7968, 8005>>,
      <<8008, 8013>>, <<8016, 8023>>, <<8025, 8025>>, <<8027, 8027>>, <<8029, 8029>>,
      <<8031, 8061>>, <<8064, 8116>>, <<8118, 8124>>, <<8126, 8126>>, <<8130, 8132>>,
      <<8134, 8140>>, <<8144, 8147>>, <<8150, 8155>>, <<8160, 8172>>, <<8178, 8180>>,
      <<8182, 8188>>, <<8450, 8450>>, <<8455, 8455>>, <<8458, 8467>>, <<8469, 8469>>,
      <<8473, 8477>>, <<8484, 8484>>, <<8486, 8486>>, <<8488, 8488>>, <<8490, 8493>>,
      <<8495, 8500>>, <<8505, 8505>>, <<8508, 8511>>, <<8517, 8521>>, <<8526, 8526>>,
      <<8544, 8575>>, <<8579, 8580>>, <<9398, 9449>>, <<11264, 11387>>, <<11390, 11492>>,
      <<11499, 11502>>, <<11506, 11507>>, <<11520, 11557>>, <<11559, 11559>>, <<11565, 11565>>,
      <<42560, 42605>>, <<42624, 42651>>, <<42786, 42863>>, <<42865, 42887>>, <<42891, 42894>>,
      <<42896, 42954>>, <<42960, 42961>>, <<42963, 42963>>, <<42965, 42969>>, <<42997, 42998>>,
      <<43002, 43002>>, <<43824, 43866>>, <<43872, 43880>>, <<43888, 43967>>, <<64256, 64262>>,
      <<64275, 64279>>, <<65313, 65338>>, <<65345, 65370>>, <<66560, 66639>>, <<66736, 66771>>,
      <<66776, 66811>>, <<66928, 66938>>, <<66940, 66954>>, <<66956, 66962>>, <<66964, 66965>>,
      <<66967, 66977>>, <<66979, 66993>>, <<66995, 67001>>, <<67003, 67004>>, <<68736, 68786>>,
      <<68800, 68850>>, <<71840, 71903>>, <<93760, 93823>>, <<119808, 119892>>, <<119894, 119964>>,
      <<119966, 119967>>, <<119970, 119970>>, <<119973, 119974>>, <<119977, 119980>>, <<119982, 119993>>,
      <<119995, 119995>>, <<119997, 120003>>, <<120005, 120069>>, <<120071, 120074>>, <<120077, 120084>>,
      <<120086, 120092>>, <<120094, 120121>>, <<120123, 120126>>, <<120128, 120132>>, <<120134, 120134>>,
      <<120138, 120144>>, <<120146, 120485>>, <<120488, 120512>>, <<120514, 120538>>, <<120540, 120570>>,
      <<120572, 120596>>, <<120598, 120628>>, <<120630, 120654>>, <<120656, 120686>>, <<120688, 120712>>,
      <<120714, 120744>>, <<120746, 120770>>, <<120772, 120779>>, <<122624, 122633>>, <<122635, 122654>>,
      <<125184, 125251>>, <<127280, 127305>>, <<127312, 127337>>, <<127344, 127369>> }

InRuns(c, runs) == \E r \in runs : r[1] <= c /\ c <= r[2]
CaseIgnorable(c) == InRuns(c, CaseIgnorableRuns)
\* asked only of characters that are not case-ignorable
Cased(c) == InRuns(c, CasedRuns)

\* str.lower() of one character, as a text: U+0130 lowers to two characters.
LowerChar(c) ==
    IF c < 256
    THEN <<IF (65 <= c /\ c <= 90) \/ (192 <= c /\ c <= 222 /\ c /= MulSign)
           THEN c + 32 ELSE c>>
    ELSE IF c = CapitalIWithDot THEN <<105, 775>>
    ELSE LET hit == {r \in LowerRuns :
                        r[1] <= c /\ c <= r[2] /\ (c - r[1]) % r[3] = 0}
         IN  IF hit = {} THEN <<c>> ELSE <<c + (CHOOSE r \in hit : TRUE)[4]>>

\* The capital sigma at position i lowers to the final sigma when the nearest
\* character before it that is not case-ignorable is cased and the nearest
\* such character after it, if any, is not.
FinalSigmaAt(text, i) ==
    LET before == {j \in 1..(i - 1) : ~CaseIgnorable(text[j])}
        after == {j \in (i + 1)..Len(text) : ~CaseIgnorable(text[j])}
        prev == CHOOSE j \in before : \A m \in before : m <= j
        next == CHOOSE j \in after : \A m \in after : j <= m
    IN  /\ before /= {} /\ Cased(text[prev])
        /\ after = {} \/ ~Cased(text[next])

\* str.lower(): the characters' lower cases, joined in order.
LowerAt(text, i) ==
    IF text[i] = CapitalSigma
    THEN <<IF FinalSigmaAt(text, i) THEN SmallFinalSigma ELSE SmallSigma>>
    ELSE LowerChar(text[i])
RECURSIVE LowerRange(_, _, _)
LowerRange(text, lo, hi) ==
    IF lo > hi THEN <<>>
    ELSE IF lo = hi THEN LowerAt(text, lo)
    ELSE LET mid == (lo + hi) \div 2
             half == [h \in 1..2 |->
                         LowerRange(text, IF h = 1 THEN lo ELSE mid + 1,
                                          IF h = 1 THEN mid ELSE hi)]
         IN  half[1] \o half[2]
Lower(text) == LowerRange(text, 1, Len(text))

\* text.lower().replace("×", "x")
Normalize(text) ==
    LET low == Lower(text)
    IN  [i \in 1..Len(low) |-> IF low[i] = MulSign THEN SmallX ELSE low[i]]

\* str.split("x"): the pieces between the separators.  The pieces of a text
\* are those of its two halves, the last piece of the first half joined to
\* the first piece of the second.
RECURSIVE Split(_)
Split(s) ==
    IF Len(s) <= 1 THEN IF s = <<SmallX>> THEN << <<>>, <<>> >> ELSE <<s>>
    ELSE LET mid == Len(s) \div 2
             half == [h \in 1..2 |->
                         Split(SubSeq(s, IF h = 1 THEN 1 ELSE mid + 1,
                                         IF h = 1 THEN mid ELSE Len(s)))]
             a == half[1]
             b == half[2]
         IN  SubSeq(a, 1, Len(a) - 1) \o <<a[Len(a)] \o b[1]>> \o Tail(b)

\* str.strip()
Strip(s) ==
    LET inked == {i \in 1..Len(s) : s[i] \notin Whitespace}
    IN  IF inked = {} THEN <<>>
        ELSE SubSeq(s, CHOOSE i \in inked : \A m \in inked : i <= m,
                       CHOOSE i \in inked :
                           \A m \in (i + 1)..Len(s) : s[m] \in Whitespace)

\* A decimal digit of any script, and its value.
IsDigit(c) ==
    IF c < 128 THEN 48 <= c /\ c <= 57
    ELSE \E z \in DigitZeros : z <= c /\ c <= z + 9
DigitVal(c) ==
    IF c < 128 THEN c - 48
    ELSE c - (CHOOSE z \in DigitZeros : z <= c /\ c <= z + 9)

\* The white space int() skips at both ends: str.isspace() without the
\* separators U+001C..U+001F.
IntSpace == Whitespace \ (28..31)

\* sys.get_int_max_str_digits(): int() refuses a text of more digits.
MaxStrDigits == 4300

\* The value of a sequence of decimal digits, leading zeros skipped.
RECURSIVE DigitsValue(_, _)
DigitsValue(s, acc) ==
    IF s = <<>> THEN acc
    ELSE DigitsValue(Tail(s), 10 * acc + DigitVal(s[1]))
Magnitude(digits) ==
    IF \A i \in 1..Len(digits) : DigitVal(digits[i]) = 0 THEN 0
    ELSE DigitsValue(SubSeq(digits,
                            CHOOSE i \in 1..Len(digits) :
                                /\ DigitVal(digits[i]) /= 0
                                /\ \A m \in 1..(i - 1) : DigitVal(digits[m]) = 0,
                            Len(digits)), 0)

\* int(s): white space, an optional sign, a run of decimal digits with single
\* underscores allowed between them, white space.  The run is scanned first
\* (a leading, trailing or doubled underscore is an invalid literal), then
\* its digits are counted against MaxStrDigits, then the rest of the text
\* must be white space.  valid = FALSE stands for ValueError, msg for which.
IntError(msg) == [valid |-> FALSE, value |-> 0, msg |-> msg]
IntOfRun(run, rest, negative) ==
    IF \/ run = <<>>
       \/ run[1] = Underscore
       \/ run[Len(run)] = Underscore
       \/ \E i \in 1..(Len(run) - 1) : run[i] = Underscore /\ run[i + 1] = Underscore
    THEN IntError("invalid literal")
    ELSE IF Len(SelectSeq(run, IsDigit)) > MaxStrDigits
    THEN IntError("digit limit")
    ELSE IF \E i \in 1..Len(rest) : rest[i] \notin IntSpace
    THEN IntError("invalid literal")
    ELSE [valid |-> TRUE,
          value |-> IF negative THEN 0 - Magnitude(SelectSeq(run, IsDigit))
                    ELSE Magnitude(SelectSeq(run, IsDigit)),
          msg |-> ""]
\* The length of the run of digits and underscores body starts with.
RunLength(body) ==
    IF \A i \in 1..Len(body) : IsDigit(body[i]) \/ body[i] = Underscore
    THEN Len(body)
    ELSE (CHOOSE i \in 1..Len(body) :
              /\ ~(IsDigit(body[i]) \/ body[i] = Underscore)
              /\ \A m \in 1..(i - 1) : IsDigit(body[m]) \/ body[m] = Underscore) - 1
IntOfBody(body, n, negative) ==
    IntOfRun(SubSeq(body, 1, n), SubSeq(body, n + 1, Len(body)), negative)
IntOfSigned(t, signed) ==
    IntOfBody(IF signed THEN Tail(t) ELSE t,
              RunLength(IF signed THEN Tail(t) ELSE t),
              signed /\ t[1] = MinusSign)
\* The text after its leading white space.
SkipSpace(s) ==
    IF \A i \in 1..Len(s) : s[i] \in IntSpace THEN <<>>
    ELSE SubSeq(s, CHOOSE i \in 1..Len(s) :
                       s[i] \notin IntSpace /\ \A m \in 1..(i - 1) : s[m] \in IntSpace,
                Len(s))
HasSign(t) == t /= <<>> /\ t[1] \in {PlusSign, MinusSign}
PyInt(s) == IntOfSigned(SkipSpace(s), HasSign(SkipSpace(s)))

\* parse_size: ok = FALSE stands for the raised exception, msg for str(e).
\* The width is converted before the height, so its failure is the one raised.
SizeError(msg) == [ok |-> FALSE, w |-> 0, h |-> 0, msg |-> msg]
SizeOfInts(w, h) ==
    IF ~w.valid THEN SizeError(w.msg)
    ELSE IF ~h.valid THEN SizeError(h.msg)
    ELSE IF w.value <= 0 \/ h.value <= 0 THEN SizeError("positive")
    ELSE [ok |-> TRUE, w |-> w.value, h |-> h.value, msg |-> ""]
SizeOfParts(parts) ==
    IF Len(parts) /= 2 THEN SizeError("format")
    ELSE SizeOfInts(PyInt(Strip(parts[1])), PyInt(Strip(parts[2])))
parse_size(text) == SizeOfParts(Split(Normalize(text)))

\* A message shown to the user: st.error, st.warning, st.success, st.info, or
\* the traceback of an exception nothing caught.
Msg(kind, detail) == [kind |-> kind, detail |-> detail]

NoSheet == <<>>                      \* sheet_w, sheet_h = None, None
SizeByEdge == "edge"                 \* "按最长/短边"
SizeByBox == "box"                   \* "指定画布 (宽x高)"
SheetAuto == "auto"                  \* "自动按网格"
SheetCustom == "custom"              \* "自定义像素"
SheetPaper == "paper"                \* "A4/Letter+DPI"

DefaultBoxText == <<49, 48, 50, 52, 120, 55, 54, 56>>          \* "1024x768"
DefaultSheetText == <<50, 52, 56, 48, 120, 51, 53, 48, 56>>    \* "2480x3508"
DefaultBox == <<1024, 768>>
DefaultSheet == <<2480, 3508>>
DefaultTargetPx == 1024
DefaultCols == 4
DefaultGap == 12
DefaultMargin == 24

\* int(8.27 * dpi), int(11.69 * dpi) and int(8.5 * dpi), int(11 * dpi)
PaperSize(paper, dpi) ==
    IF paper = "A4" THEN <<(827 * dpi) \div 100, (1169 * dpi) \div 100>>
    ELSE <<(85 * dpi) \div 10, 11 * dpi>>

\* Texts typed by the user: every text over Alphabet of at most MaxText
\* characters, and a few longer ones.
RECURSIVE TextsOfLen(_)
TextsOfLen(n) ==
    IF n = 0 THEN {<<>>}
    ELSE {Append(t, c) : t \in TextsOfLen(n - 1), c \in Alphabet}
TypedTexts == UNION {TextsOfLen(n) : n \in 0..MaxText}
SampleTexts ==
    { DefaultBoxText, DefaultSheetText,
      <<49, 48, 50, 52, MulSign, 55, 54, 56>>,                \* "1024×768"
      <<97, 98, 99>>,                                         \* "abc"
      <<32, 54, 52, 48, 32, 88, 32, 52, 56, 48, 32>> }        \* " 640 X 480 "
\* Texts with characters beyond the alphabet.
UnicodeTexts ==
    { <<9, 65297, 54, 120, 1635, 12288>>,                     \* tab, full-width 1, "6x", Arabic-Indic 3, U+3000
      <<49, 66, 120, 50>>,                                    \* "1Bx2"
      <<49, 65336, 50>>,                                      \* "1", full-width X, "2"
      <<97, CapitalSigma, 120, CapitalIWithDot>>,             \* "aΣxİ"
      [i \in 1..(MaxStrDigits + 1) |-> 49] \o <<120, 55>> }   \* 4301 times "1", then "x7"
DpiChoices == {72, 300}

\* The widgets in front of the user, and whether python-pptx could be
\* imported (lines 34-39).  At least one of the two size fields holds one of
\* the sample texts; the other holds any typed text, or one of UnicodeTexts.
\* The PPTX box is ticked, or python-pptx missing, with sample texts in both
\* fields.
SizeTexts(mode, sheet_size_mode) ==
    LET all == TypedTexts \cup SampleTexts \cup UnicodeTexts
        boxes == IF mode = SizeByBox THEN all ELSE {DefaultBoxText}
        sheets == IF sheet_size_mode = SheetCustom THEN all ELSE {DefaultSheetText}
    IN  ((boxes \cap SampleTexts) \X sheets) \cup (boxes \X (sheets \cap SampleTexts))
ExportChoices(texts) ==
    IF texts[1] \in SampleTexts /\ texts[2] \in SampleTexts
    THEN BOOLEAN \X BOOLEAN ELSE {<<FALSE, TRUE>>}

InitSidebar ==
    /\ pc = "sidebar_sizing"
    /\ ui = [mode |-> "none"]
    /\ files = <<>> /\ k = 0 /\ processed = <<>> /\ log = <<>>
    /\ imgs_for_grid = <<>> /\ cell = <<>> /\ rows = 0 /\ sheet = <<>>
    /\ placed = <<>> /\ call = NoCall /\ ret = NoRet
    /\ \E mode \in {SizeByEdge, SizeByBox},
          sheet_size_mode \in {SheetAuto, SheetCustom, SheetPaper} :
          \E texts \in SizeTexts(mode, sheet_size_mode),
             paper \in IF sheet_size_mode = SheetPaper THEN {"A4", "Letter"} ELSE {"A4"},
             dpi \in IF sheet_size_mode = SheetPaper THEN DpiChoices ELSE {300} :
             \E export \in ExportChoices(texts) :
                inputs = [mode |-> mode, no_upscale |-> TRUE,
                          ls_mode |-> LongestEdge, target_px |-> DefaultTargetPx,
                          box_str |-> texts[1], fit_mode |-> PadToFit,
                          make_contact |-> TRUE, cols |-> DefaultCols,
                          grid_gap |-> DefaultGap, margin |-> DefaultMargin,
                          show_caption |-> FALSE,
                          sheet_size_mode |-> sheet_size_mode,
                          sheet_wh |-> texts[2], paper |-> paper, dpi |-> dpi,
                          do_zip |-> TRUE, do_csv |-> TRUE,
                          do_pptx |-> export[1], pptx_available |-> export[2]]

\* Lines 179-189: the sizing section.  With a target box, the text is parsed;
\* a failure is shown with st.error and the box falls back to 1024x768.
SidebarSizing ==
    /\ pc = "sidebar_sizing"
    /\ IF inputs.mode = SizeByEdge
       THEN /\ ui' = [mode |-> SizeByEdge, no_upscale |-> inputs.no_upscale,
                      ls_mode |-> inputs.ls_mode, target_px |-> inputs.target_px]
            /\ log' = log
       ELSE LET p == parse_size(inputs.box_str)
            IN  /\ ui' = [mode |-> SizeByBox, no_upscale |-> inputs.no_upscale,
                          fit_mode |-> inputs.fit_mode,
                          tw |-> IF p.ok THEN p.w ELSE DefaultBox[1],
                          th |-> IF p.ok THEN p.h ELSE DefaultBox[2]]
                /\ log' = IF p.ok THEN log ELSE Append(log, Msg("error", p.msg))
    /\ pc' = "sidebar_sheet"
    /\ UNCHANGED <<inputs, files, k, processed, imgs_for_grid, cell, rows, sheet,
                   placed, call, ret>>

\* Lines 199-214: the sheet-size section.  A custom text that does not parse
\* falls back to 2480x3508; nothing is shown.
SidebarSheet ==
    /\ pc = "sidebar_sheet"
    /\ LET p == parse_size(inputs.sheet_wh)
           size == IF inputs.sheet_size_mode = SheetCustom
                   THEN IF p.ok THEN <<p.w, p.h>> ELSE DefaultSheet
                   ELSE IF inputs.sheet_size_mode = SheetPaper
                   THEN PaperSize(inputs.paper, inputs.dpi)
                   ELSE NoSheet
       IN  ui' = [sizing |-> ui, make_contact |-> inputs.make_contact,
                  cols |-> inputs.cols, grid_gap |-> inputs.grid_gap,
                  margin |-> inputs.margin, show_caption |-> inputs.show_caption,
                  sheet_size |-> size]
    /\ pc' = "sidebar_export"
    /\ UNCHANGED <<inputs, files, k, processed, log, imgs_for_grid, cell, rows,
                   sheet, placed, call, ret>>

\* Lines 216-221: the export section.  With the PPTX box ticked and
\* python-pptx missing, a warning is shown.
SidebarExport ==
    /\ pc = "sidebar_export"
    /\ log' = IF inputs.do_pptx /\ ~inputs.pptx_available
              THEN Append(log, Msg("warning", "python-pptx"))
              ELSE log
    /\ pc' = "sidebar_done"
    /\ UNCHANGED <<inputs, ui, files, k, processed, imgs_for_grid, cell, rows,
                   sheet, placed, call, ret>>

NextSidebar == SidebarSizing \/ SidebarSheet \/ SidebarExport

SpecSidebar == InitSidebar /\ [][NextSidebar]_vars

\* ------------------------------------- processing loop and contact sheet

\* Uploaded files.  The i-th file's name is fixed; a file either decodes to
\* an image of one of FileSizes or makes load_image raise.
Names == <<"a.png", "g.jpg", "b.tif", "q.bmp", "c.png", "y.jpg">>
FileName(i) == Names[((i - 1) % Len(Names)) + 1]
FileSizes == {<<w, h>> : w \in {1, 4}, h \in {2, 3}}
FileOptions ==
    {[ok |-> FALSE, size |-> <<>>]} \cup {[ok |-> TRUE, size |-> s] : s \in FileSizes}
Uploads ==
    UNION {{[i \in 1..n |-> [name |-> FileName(i), ok |-> f[i].ok, size |-> f[i].size]] :
              f \in [1..n -> FileOptions]} : n \in 0..MaxFiles}

Gaps == {0, 1}
Margins == {0, 2}
FixedSheets == {<<6, 6>>}
PipelineTargets == {2, 5}

\* The sizing section left at its defaults, the layout section varied.
InitLayout ==
    \E cols \in 1..MaxCols, grid_gap \in Gaps, margin \in Margins,
       show_caption, make_contact \in BOOLEAN,
       sheet_size \in {NoSheet} \cup FixedSheets :
       ui = [sizing |-> [mode |-> SizeByEdge, no_upscale |-> TRUE,
                         ls_mode |-> LongestEdge, target_px |-> DefaultTargetPx],
             make_contact |-> make_contact, cols |-> cols, grid_gap |-> grid_gap,
             margin |-> margin, show_caption |-> show_caption,
             sheet_size |-> sheet_size]

\* The layout section left at its defaults, the sizing section varied.
InitSizing ==
    \E no_upscale \in BOOLEAN :
       \E sizing \in
            {[mode |-> SizeByEdge, no_upscale |-> no_upscale, ls_mode |-> m,
              target_px |-> t] : m \in {LongestEdge, ShortestEdge}, t \in PipelineTargets}
            \cup
            {[mode |-> SizeByBox, no_upscale |-> no_upscale, fit_mode |-> f,
              tw |-> a, th |-> b] :
                f \in {PadToFit, CropToFill, Stretch}, a \in PipelineTargets,
                b \in PipelineTargets} :
          ui = [sizing |-> sizing, make_contact |-> TRUE, cols |-> DefaultCols,
                grid_gap |-> DefaultGap, margin |-> DefaultMargin,
                show_caption |-> FALSE, sheet_size |-> NoSheet]

Init ==
    /\ pc = "process"
    /\ inputs = [mode |-> "none"]
    /\ InitLayout \/ InitSizing
    /\ files \in Uploads
    /\ k = 0
    /\ processed = <<>>
    /\ log = <<>>
    /\ imgs_for_grid = <<>>
    /\ cell = <<>>
    /\ rows = 0
    /\ sheet = <<>>
    /\ placed = <<>>
    /\ call = NoCall
    /\ ret = NoRet

\* Lines 233-238: size one decoded image and build its ProcessedImage.
\* scale is kept as the fraction min(out_w/orig_w, out_h/orig_h).
ProcessedImage(name, img) ==
    LET out == IF ui.sizing.mode = SizeByEdge
               THEN resize_by_long_or_short(img, ui.sizing.target_px,
                        ui.sizing.ls_mode, TRUE, ui.sizing.no_upscale).size
               ELSE resize_to_box(img, ui.sizing.tw, ui.sizing.th,
                        ui.sizing.fit_mode, ui.sizing.no_upscale).size
    IN  [name |-> name, orig_size |-> img, out_size |-> out,
         scale |-> FracMin(<<out[1], img[1]>>, <<out[2], img[2]>>)]

\* Lines 226, 337-338: nothing uploaded.
NoFiles ==
    /\ pc = "process"
    /\ files = <<>>
    /\ log' = Append(log, Msg("info", "select images"))
    /\ pc' = "done"
    /\ UNCHANGED <<inputs, ui, files, k, processed, imgs_for_grid, cell, rows,
                   sheet, placed, call, ret>>

\* variant: break for continue
LoadFailureBreaks ==
    /\ pc = "process"
    /\ k < Len(files)
    /\ ~files[k + 1].ok
    /\ log' = Append(log, Msg("error", files[k + 1].name))
    /\ k' = Len(files)
    /\ UNCHANGED <<pc, inputs, ui, files, processed, imgs_for_grid, cell, rows,
                   sheet, placed, call, ret>>
\* Lines 228-232: load_image raises; the failure is shown and the loop goes on
\* with the next file.
LoadFailure ==
    /\ pc = "process"
    /\ k < Len(files)
    /\ ~files[k + 1].ok
    /\ log' = Append(log, Msg("error", files[k + 1].name))
    /\ k' = k + 1
    /\ UNCHANGED <<pc, inputs, ui, files, processed, imgs_for_grid, cell, rows,
                   sheet, placed, call, ret>>

\* Lines 228-238: the file decodes, is sized and appended to processed.
ProcessFile ==
    /\ pc = "process"
    /\ k < Len(files)
    /\ files[k + 1].ok
    /\ processed' = Append(processed, ProcessedImage(files[k + 1].name, files[k + 1].size))
    /\ k' = k + 1
    /\ UNCHANGED <<pc, inputs, ui, files, log, imgs_for_grid, cell, rows, sheet,
                   placed, call, ret>>

\* Lines 240-289: the loop is over.  The count is shown; preview, ZIP, CSV and
\* PPTX read processed and change nothing the later code reads.
LoopDone ==
    /\ pc = "process"
    /\ files /= <<>>
    /\ k = Len(files)
    /\ log' = Append(log, Msg("success", "processed"))
    /\ pc' = IF ui.make_contact THEN "captions" ELSE "done"
    /\ UNCHANGED <<inputs, ui, files, k, processed, imgs_for_grid, cell, rows,
                   sheet, placed, call, ret>>

\* draw.textbbox: the height of the rendered name in the default font, which
\* depends on the glyphs; two heights stand for the library's answers.
TextHeight(text) == IF text \in {"g.jpg", "q.bmp", "y.jpg"} THEN 11 ELSE 9
CaptionPad == 6

\* draw_caption: the image with a caption band below it.
draw_caption(img, text) ==
    IF text = "" THEN img
    ELSE <<img[1], img[2] + TextHeight(text) + CaptionPad * 2>>

\* Lines 291-296
ContactCaptions ==
    /\ pc = "captions"
    /\ imgs_for_grid' =
          [i \in 1..Len(processed) |->
              IF ui.show_caption
              THEN draw_caption(processed[i].out_size, processed[i].name)
              ELSE processed[i].out_size]
    /\ pc' = "cell"
    /\ UNCHANGED <<inputs, ui, files, k, processed, log, cell, rows, sheet,
                   placed, call, ret>>

\* max(...) over a non-empty list
RECURSIVE MaxOf(_, _)
MaxOf(seq, axis) ==
    IF Len(seq) = 1 THEN seq[1][axis]
    ELSE Max2(seq[1][axis], MaxOf(Tail(seq), axis))
\* variant: min for max
RECURSIVE MinOf(_, _)
MinOf(seq, axis) ==
    IF Len(seq) = 1 THEN seq[1][axis]
    ELSE Min2(seq[1][axis], MinOf(Tail(seq), axis))

CellSizeMin(imgs) == <<MinOf(imgs, 1), MinOf(imgs, 2)>>
CellSize(imgs) == <<MaxOf(imgs, 1), MaxOf(imgs, 2)>>

\* Lines 298-300 with at least one image
ContactCell ==
    /\ pc = "cell"
    /\ imgs_for_grid /= <<>>
    /\ cell' = CellSize(imgs_for_grid)
    /\ pc' = "canvas"
    /\ UNCHANGED <<inputs, ui, files, k, processed, log, imgs_for_grid, rows,
                   sheet, placed, call, ret>>

\* Line 299 with no image: max() of an empty sequence raises ValueError, which
\* nothing catches; the script run ends there.
ContactCellEmpty ==
    /\ pc = "cell"
    /\ imgs_for_grid = <<>>
    /\ log' = Append(log, Msg("exception", "ValueError"))
    /\ pc' = "crashed"
    /\ UNCHANGED <<inputs, ui, files, k, processed, imgs_for_grid, cell, rows,
                   sheet, placed, call, ret>>

\* variant: floor division
CeilDivFloor(n, c) == n \div c
\* math.ceil(n / c)
CeilDiv(n, c) == IF n % c = 0 THEN n \div c ELSE n \div c + 1

\* margin*2 + n*cell + (n-1)*gap
GridExtent(n, cellEdge) == ui.margin * 2 + n * cellEdge + (n - 1) * ui.grid_gap

\* Lines 302-315
ContactCanvas ==
    /\ pc = "canvas"
    /\ IF ui.sheet_size = NoSheet
       THEN LET r == CeilDiv(Len(imgs_for_grid), ui.cols)
            IN  /\ rows' = r
                /\ sheet' = <<GridExtent(ui.cols, cell[1]), GridExtent(r, cell[2])>>
                /\ log' = log
       ELSE LET r == Max2(1, CeilDiv(Len(imgs_for_grid), ui.cols))
                minW == GridExtent(ui.cols, cell[1])
                minH == GridExtent(r, cell[2])
            IN  /\ rows' = r
                /\ sheet' = ui.sheet_size
                /\ log' = IF ui.sheet_size[1] < minW \/ ui.sheet_size[2] < minH
                          THEN Append(log, Msg("warning", "canvas too small"))
                          ELSE log
    /\ pc' = "paste"
    /\ UNCHANGED <<inputs, ui, files, k, processed, imgs_for_grid, cell, placed,
                   call, ret>>

\* variant: the row index lost
PlacementSameRow(i, im) ==
    LET r == 0
        c == i % ui.cols
        x == ui.margin + c * (cell[1] + ui.grid_gap)
        y == ui.margin + r * (cell[2] + ui.grid_gap)
        ox == x + (cell[1] - im[1]) \div 2
        oy == y + (cell[2] - im[2]) \div 2
    IN  [ox |-> ox, oy |-> oy, w |-> im[1], h |-> im[2], fallback |-> FALSE]
\* Lines 319-327: where image i (0-based) of size im is pasted
Placement(i, im) ==
    LET r == i \div ui.cols
        c == i % ui.cols
        x == ui.margin + c * (cell[1] + ui.grid_gap)
        y == ui.margin + r * (cell[2] + ui.grid_gap)
        ox == x + (cell[1] - im[1]) \div 2
        oy == y + (cell[2] - im[2]) \div 2
    IN  IF ox < 0 \/ oy < 0
        THEN [ox |-> x, oy |-> y, w |-> im[1], h |-> im[2], fallback |-> TRUE]
        ELSE [ox |-> ox, oy |-> oy, w |-> im[1], h |-> im[2], fallback |-> FALSE]

\* Lines 318-328: one iteration of the paste loop
PasteImage ==
    /\ pc = "paste"
    /\ Len(placed) < Len(imgs_for_grid)
    /\ placed' = Append(placed, Placement(Len(placed), imgs_for_grid[Len(placed) + 1]))
    /\ UNCHANGED <<pc, inputs, ui, files, k, processed, log, imgs_for_grid, cell,
                   rows, sheet, call, ret>>

\* Lines 330-335: the sheet is shown and offered for download
ContactDone ==
    /\ pc = "paste"
    /\ Len(placed) = Len(imgs_for_grid)
    /\ pc' = "done"
    /\ UNCHANGED <<inputs, ui, files, k, processed, log, imgs_for_grid, cell,
                   rows, sheet, placed, call, ret>>

Next ==
    \/ NoFiles
    \/ LoadFailure
    \/ ProcessFile
    \/ LoopDone
    \/ ContactCaptions
    \/ ContactCell
    \/ ContactCellEmpty
    \/ ContactCanvas
    \/ PasteImage
    \/ ContactDone

Spec == Init /\ [][Next]_vars

\* ------------------------------------------------------------ properties

Returned(fn) == pc = "returned" /\ call.fn = fn

\* C1: pad-to-fit returns an image of exactly (tw, th); the resized content
\* (nw, nh) has 1 <= nw <= tw and 1 <= nh <= th and is pasted at the
\* non-negative offset ((tw-nw) div 2, (th-nh) div 2); an input already of
\* size (tw, th) keeps nw = tw, nh = th and is pasted at (0, 0).
C1_PadToFitExact ==
    (Returned("resize_to_box") /\ call.fit_mode = PadToFit) =>
        /\ ret.size = <<call.tw, call.th>>
        /\ 1 <= ret.resized[1] /\ ret.resized[1] <= call.tw
        /\ 1 <= ret.resized[2] /\ ret.resized[2] <= call.th
        /\ ret.at = <<(call.tw - ret.resized[1]) \div 2,
                      (call.th - ret.resized[2]) \div 2>>
        /\ ret.at[1] >= 0 /\ ret.at[2] >= 0
        /\ (call.img = <<call.tw, call.th>>) =>
               (ret.resized = call.img /\ ret.at = <<0, 0>>)

\* An (8,4) image padded into a (4,4) box: halved to (4,2), one row of
\* background above and below.
C1_Witness ==
    /\ Returned("resize_to_box") /\ call.fit_mode = PadToFit
    /\ call.img = <<8, 4>> /\ call.tw = 4 /\ call.th = 4 /\ ~call.no_upscale
    /\ ret.size = <<4, 4>> /\ ret.resized = <<4, 2>> /\ ret.at = <<0, 1>>

\* C2: crop-to-fill returns an image of exactly (tw, th) whose crop window
\* [left, left+tw) x [top, top+th) lies inside the resized image, with
\* left = (nw-tw) div 2 and top = (nh-th) div 2, for either value of no_upscale.
C2_CropWindowInside ==
    (Returned("resize_to_box") /\ call.fit_mode = CropToFill) =>
        /\ ret.size = <<call.tw, call.th>>
        /\ ret.at[1] + call.tw <= ret.resized[1]
        /\ ret.at[2] + call.th <= ret.resized[2]
        /\ ret.at = <<(ret.resized[1] - call.tw) \div 2,
                      (ret.resized[2] - call.th) \div 2>>

\* C3: keep_ratio, no_upscale, longest edge and target >= max(w, h): the
\* output has the input's size, also at target = max(w, h).
C3_NoUpscaleKeepsSize ==
    ( /\ Returned("resize_by_long_or_short")
      /\ call.keep_ratio /\ call.no_upscale /\ call.mode = LongestEdge
      /\ call.target >= Max2(call.img[1], call.img[2]) ) =>
        ret.size = call.img

\* target = max(w, h): the resize is performed, at scale 1.
C3_Witness ==
    /\ Returned("resize_by_long_or_short")
    /\ call.keep_ratio /\ call.no_upscale /\ call.mode = LongestEdge
    /\ call.img = <<5, 3>> /\ call.target = 5
    /\ ~ret.same /\ ret.size = <<5, 3>>

\* e2 is a nearest integer to e*target/basis, floored at 1
NearestFlooredAtOne(e2, e, target, basis) ==
    /\ e2 >= 1
    /\ \/ /\ 2 * e2 * basis - 2 * e * target <= basis
          /\ 2 * e * target - 2 * e2 * basis <= basis
       \/ e2 = 1 /\ 2 * e * target < basis

\* C10: keep_ratio and a resize actually performed (no_upscale off, or
\* scale <= 1): the basis edge of the output is exactly target (the larger
\* edge in longest-edge mode, the smaller in shortest-edge mode) and each edge
\* is the nearest integer to edge*target/basis, floored at 1; (8,6) and (6,8)
\* with longest-edge target 4 give (4,3) and (3,4).
C10_BasisEdgeIsTarget ==
    ( /\ Returned("resize_by_long_or_short")
      /\ call.keep_ratio ) =>
        LET w == call.img[1]
            h == call.img[2]
            basis == IF call.mode = LongestEdge THEN Max2(w, h) ELSE Min2(w, h)
        IN  (~call.no_upscale \/ call.target <= basis) =>
              /\ IF call.mode = LongestEdge
                 THEN Max2(ret.size[1], ret.size[2]) = call.target
                 ELSE Min2(ret.size[1], ret.size[2]) = call.target
              /\ NearestFlooredAtOne(ret.size[1], w, call.target, basis)
              /\ NearestFlooredAtOne(ret.size[2], h, call.target, basis)
              /\ (call.mode = LongestEdge /\ call.target = 4 /\ call.img = <<8, 6>>)
                    => ret.size = <<4, 3>>
              /\ (call.mode = LongestEdge /\ call.target = 4 /\ call.img = <<6, 8>>)
                    => ret.size = <<3, 4>>

\* (3,8) by its shortest edge to 2: the other edge is 16/3, rounded to 5.
C10_Witness ==
    /\ Returned("resize_by_long_or_short")
    /\ call.keep_ratio /\ ~call.no_upscale /\ call.mode = ShortestEdge
    /\ call.img = <<3, 8>> /\ call.target = 2
    /\ ret.size = <<2, 5>>

IsError(m) == m.kind = "error"
ErrorsShown == Len(SelectSeq(log, IsError))

\* C7: for the target box and for the custom sheet size, a text that does not
\* parse to two positive integers is reported to the user and replaced by the
\* default (1024x768, 2480x3508); a valid text WxH, with x, X or the
\* multiplication sign, yields exactly (W, H).
C7_SizeTextFallback ==
    (pc = "sidebar_done") =>
        LET box == parse_size(inputs.box_str)
            sht == parse_size(inputs.sheet_wh)
            boxFails == inputs.mode = SizeByBox /\ ~box.ok
            shtFails == inputs.sheet_size_mode = SheetCustom /\ ~sht.ok
        IN  /\ (inputs.mode = SizeByBox) =>
                  <<ui.sizing.tw, ui.sizing.th>> =
                      IF box.ok THEN <<box.w, box.h>> ELSE <<1024, 768>>
            /\ (inputs.sheet_size_mode = SheetCustom) =>
                  ui.sheet_size = IF sht.ok THEN <<sht.w, sht.h>> ELSE <<2480, 3508>>
            /\ ErrorsShown = (IF boxFails THEN 1 ELSE 0) + (IF shtFails THEN 1 ELSE 0)
            /\ (inputs.mode = SizeByBox
                  /\ inputs.box_str = <<49, 48, 50, 52, MulSign, 55, 54, 56>>)
                  => <<ui.sizing.tw, ui.sizing.th>> = <<1024, 768>>
            /\ (inputs.mode = SizeByBox
                  /\ inputs.box_str = <<49, 50, 88, 50>>)
                  => <<ui.sizing.tw, ui.sizing.th>> = <<12, 2>>

IsOk(f) == f.ok
IsNotOk(f) == ~f.ok
NamesOf(seq) == [i \in 1..Len(seq) |-> seq[i].name]
DetailsOf(seq) == [i \in 1..Len(seq) |-> seq[i].detail]

\* C6: a file that fails to decode is reported and skipped and the batch
\* goes on: after the loop every file has been consumed, and at every point
\* processed holds exactly one record per decodable file consumed so far, in
\* input order, none for a failing file, and each failing file was reported.
C6_DecodeFailureSkipped ==
    (pc \notin {"call", "returned", "sidebar_sizing", "sidebar_sheet",
                 "sidebar_export", "sidebar_done"}) =>
        /\ k \in 0..Len(files)
        /\ (pc /= "process") => k = Len(files)
        /\ NamesOf(processed) = NamesOf(SelectSeq(SubSeq(files, 1, k), IsOk))
        /\ \A i \in 1..Len(processed) :
              processed[i].orig_size =
                  SelectSeq(SubSeq(files, 1, k), IsOk)[i].size
        /\ DetailsOf(SelectSeq(log, IsError)) =
              NamesOf(SelectSeq(SubSeq(files, 1, k), IsNotOk))

\* The first of three files fails, the two after it are processed.
C6_Witness ==
    /\ pc = "done"
    /\ Len(files) = 3 /\ ~files[1].ok /\ files[2].ok /\ files[3].ok
    /\ NamesOf(processed) = <<files[2].name, files[3].name>>
    /\ ErrorsShown = 1

\* C8: with the contact sheet enabled and no image reaching it, the layout is
\* rejected cleanly: the cell-size and row computation never runs on an empty
\* list and the run does not end in an uncaught error.
C8_EmptyLayoutRejected ==
    /\ pc /= "crashed"
    /\ (pc \in {"canvas", "paste"}) => imgs_for_grid /= <<>>
    /\ \A i \in 1..Len(log) : log[i].kind /= "exception"

AutoSheetLaidOut == sheet /= <<>> /\ ui.sheet_size = NoSheet

\* C4: auto canvas, N >= 1 images, C columns: rows = ceil(N/C) and the canvas
\* is exactly (2*margin + C*cellW + (C-1)*gap, 2*margin + rows*cellH +
\* (rows-1)*gap), (cellW, cellH) the componentwise maximum of the image sizes
\* entering the layout; the width counts C columns also when N < C.
C4_AutoCanvas ==
    AutoSheetLaidOut =>
        LET N == Len(imgs_for_grid)
            C == ui.cols
        IN  /\ N >= 1
            /\ rows * C >= N /\ (rows - 1) * C < N
            /\ \A i \in 1..N : imgs_for_grid[i][1] <= cell[1] /\ imgs_for_grid[i][2] <= cell[2]
            /\ \E i \in 1..N : imgs_for_grid[i][1] = cell[1]
            /\ \E i \in 1..N : imgs_for_grid[i][2] = cell[2]
            /\ sheet[1] = 2 * ui.margin + C * cell[1] + (C - 1) * ui.grid_gap
            /\ sheet[2] = 2 * ui.margin + rows * cell[2] + (rows - 1) * ui.grid_gap

\* Three images of different sizes in two columns: two rows, the second one
\* half empty.
C4_Witness ==
    /\ AutoSheetLaidOut /\ pc = "done"
    /\ Len(imgs_for_grid) = 3 /\ ui.cols = 2 /\ rows = 2
    /\ ui.grid_gap = 1 /\ ui.margin = 2
    /\ imgs_for_grid[1] = <<1, 3>> /\ imgs_for_grid[2] = <<4, 2>>
    /\ sheet = <<13, 11>>

Disjoint(a, b) ==
    \/ a.ox + a.w <= b.ox
    \/ b.ox + b.w <= a.ox
    \/ a.oy + a.h <= b.oy
    \/ b.oy + b.h <= a.oy

\* C5: in any layout (auto or fixed canvas, captions on or off) the pasted
\* boxes [ox, ox+w) x [oy, oy+h) of two distinct images do not intersect.
C5_PastesDisjoint ==
    \A i, j \in 1..Len(placed) : i /= j => Disjoint(placed[i], placed[j])

\* Three captioned images on a fixed canvas, two columns, no gap, no margin.
C5_Witness ==
    /\ pc = "done" /\ Len(placed) = 3
    /\ ui.sheet_size /= NoSheet /\ ui.show_caption
    /\ ui.cols = 2 /\ ui.grid_gap = 0 /\ ui.margin = 0
    /\ placed[1].w /= placed[2].w /\ placed[1].h /= placed[3].h

\* C9: auto canvas: every pasted image lies inside the canvas with the margin
\* kept on all sides, at (margin + (i mod C)*(cellW+gap) + (cellW-w) div 2,
\* margin + (i div C)*(cellH+gap) + (cellH-h) div 2); the fallback to the
\* cell's corner is never taken.
C9_InsideMargins ==
    AutoSheetLaidOut =>
        \A n \in 1..Len(placed) :
            LET p == placed[n]
                i == n - 1
            IN  /\ ui.margin <= p.ox /\ p.ox + p.w <= sheet[1] - ui.margin
                /\ ui.margin <= p.oy /\ p.oy + p.h <= sheet[2] - ui.margin
                /\ p.w = imgs_for_grid[n][1] /\ p.h = imgs_for_grid[n][2]
                /\ p.ox = ui.margin + (i % ui.cols) * (cell[1] + ui.grid_gap)
                              + (cell[1] - p.w) \div 2
                /\ p.oy = ui.margin + (i \div ui.cols) * (cell[2] + ui.grid_gap)
                              + (cell[2] - p.h) \div 2
                /\ ~p.fallback

\* A narrow image centred in the second row's first cell.
C9_Witness ==
    /\ AutoSheetLaidOut /\ pc = "done"
    /\ Len(placed) = 3 /\ ui.cols = 2 /\ ui.margin = 2 /\ ui.grid_gap = 1
    /\ cell = <<4, 3>>
    /\ placed[3].w = 1 /\ placed[3].ox = 3 /\ placed[3].oy = 6

====
